---- MODULE Spec2Model ----
(***************************************************************************)
(* Model of the tool-calling bridge of the todo chatbot backend:           *)
(*   backend/src/api/chat.py            chat_endpoint, execute_tool_calls  *)
(*   backend/src/mcp_server/server.py   TodoMCPTools, MockAuthService      *)
(*   backend/src/services/chat_service.py      ChatService                 *)
(*   backend/src/services/ai_agent_manager.py  AIAgentManager              *)
(*   backend/src/services/ai_agent_service.py  AIAgentService              *)
(*   backend/src/api/tasks.py           the task router                    *)
(*   backend/src/services/task_service.py      get_task_for_user           *)
(*                                                                         *)
(* Python strings are sequences of one-character strings ("Ab" is          *)
(* <<"A","b">>); longer tokens stand for the fixed pieces of formatted     *)
(* texts.  A text shown to the user is the concatenation of its pieces.    *)
(***************************************************************************)
EXTENDS Integers, Sequences, FiniteSets, TLC

VARIABLES tasks, nextTaskId, conversations, nextConvId, messages, reqs, turnsLeft,
          lastOp

vars == <<tasks, nextTaskId, conversations, nextConvId, messages, reqs, turnsLeft, lastOp>>

(***************************** bounds ***************************************)
MaxTasks == 2           \* task rows ever created (ids 1..MaxTasks)
MaxCalls == 2           \* tool calls in one completion result
MaxHistTurns == 27      \* chat turns in the history specification
MaxConvTurns == 3       \* chat turns in the conversation specification

(***************************** program constants ****************************)
HistoryLimit == 50      \* get_conversation_history(..., limit: int = 50)

(***************************** values ***************************************)
Users == {1, 2}         \* ids of the registered users

NoneV == <<"<None>">>   \* Python None, distinct from every string

Digits == <<"1", "2", "3", "4", "5", "6", "7", "8", "9">>

\* str(i) for the integers the model uses (chat.py:38, chat.py:81)
ToStr(i) ==
  IF i \in 1..9 THEN <<Digits[i]>>
  ELSE IF i = 0 THEN <<"0">>
  ELSE <<"-">> \o <<Digits[0 - i]>>

\* int(s): [ok |-> TRUE, val |-> n], or ok = FALSE for the ValueError that
\* int() raises on a non-numeric string
ParseInt(s) ==
  IF \E i \in -9..9 : ToStr(i) = s
  THEN [ok |-> TRUE, val |-> CHOOSE i \in -9..9 : ToStr(i) = s]
  ELSE [ok |-> FALSE, val |-> 0]

\* faulty variant: no case folding
NoFold(c) == c

\* the case folding ILIKE applies to a character
Lower(c) == IF c = "A" THEN "a" ELSE IF c = "B" THEN "b" ELSE c

RECURSIVE Join(_, _)
\* sep.join(parts)
Join(parts, sep) ==
  IF parts = <<>> THEN <<>>
  ELSE IF Len(parts) = 1 THEN parts[1]
  ELSE parts[1] \o sep \o Join(Tail(parts), sep)

\* sub occurs in text as a contiguous run of pieces
Contains(text, sub) ==
  \E i \in 0..(Len(text) - Len(sub)) :
     \A j \in 1..Len(sub) : text[i + j] = sub[j]

StartsWith(text, pre) ==
  /\ Len(pre) <= Len(text)
  /\ \A j \in 1..Len(pre) : text[j] = pre[j]

(***************************** dictionaries *********************************)
\* params.get(k): the value, or None when the key is missing
Get(p, k) == IF k \in DOMAIN p THEN p[k] ELSE NoneV

\* params.get(k, d)
GetDefault(p, k, d) == IF k \in DOMAIN p THEN p[k] ELSE d

\* Python truthiness of a str-or-None value: None and "" are falsy
Truthy(v) == v # NoneV /\ v # <<>>

\* a or b
Or2(a, b) == IF Truthy(a) THEN a ELSE b

\* arguments["user_id"] = value  (adds the key when missing)
EmptyDict == [x \in {} |-> NoneV]

SetKey(p, k, v) == [x \in (DOMAIN p) \cup {k} |-> IF x = k THEN v ELSE p[x]]

(***************************** ILIKE ****************************************)
RECURSIVE LikeMatch(_, _)
\* text ILIKE pat with the store's default escape character (backslash):
\* % matches any run, _ any one character, \c the character c itself
LikeMatch(pat, text) ==
  IF pat = <<>> THEN text = <<>>
  ELSE IF Head(pat) = "%"
    THEN \/ LikeMatch(Tail(pat), text)
         \/ text # <<>> /\ LikeMatch(pat, Tail(text))
  ELSE IF Head(pat) = "_"
    THEN text # <<>> /\ LikeMatch(Tail(pat), Tail(text))
  ELSE IF Head(pat) = "\\" /\ Len(pat) >= 2
    THEN /\ text # <<>>
         /\ Lower(Head(text)) = Lower(pat[2])
         /\ LikeMatch(Tail(Tail(pat)), Tail(text))
  ELSE /\ text # <<>>
       /\ Lower(Head(text)) = Lower(Head(pat))
       /\ LikeMatch(Tail(pat), Tail(text))

RECURSIVE EscapeLike(_)
\* task_title.replace('%', '\\%').replace('_', '\\_')
EscapeLike(s) ==
  IF s = <<>> THEN <<>>
  ELSE (IF Head(s) \in {"%", "_"} THEN <<"\\", Head(s)>> ELSE <<Head(s)>>)
       \o EscapeLike(Tail(s))

(***************************** task store ***********************************)
\* a row of table "tasks"
TaskRow(id, uid, title, description, completed) ==
  [id |-> id, user_id |-> uid, title |-> title,
   description |-> description, completed |-> completed]

\* faulty variant: lookup by id alone
RowsByIdAnyOwner(store, id, uid) == {t \in store : t.id = id}

\* faulty variant: title search over every owner's rows
RowsByTitleAnyOwner(store, pattern, uid) == {t \in store : LikeMatch(pattern, t.title)}

\* query(Task).filter(Task.id == id, Task.user_id == uid)
RowsByIdOwner(store, id, uid) == {t \in store : t.id = id /\ t.user_id = uid}

\* query(Task).filter(Task.title.ilike(pattern), Task.user_id == uid)
RowsByTitleOwner(store, pattern, uid) ==
  {t \in store : LikeMatch(pattern, t.title) /\ t.user_id = uid}

(***************************** tool outcomes ********************************)
\* a tool call that raised: the store is as it was, exc is str(e)
\* faulty variant: the exception is raised after the session has written
RaisedAfterWrite(store, nid, msg) ==
  [ok |-> FALSE, kind |-> "error", exc |-> msg, store |-> {}, nid |-> nid,
   touched |-> {}, title |-> NoneV, task_id |-> 0, count |-> 0]

Raised(store, nid, msg) ==
  [ok |-> FALSE, kind |-> "error", exc |-> msg, store |-> store, nid |-> nid,
   touched |-> {}, title |-> NoneV, task_id |-> 0, count |-> 0]

\* the "not found" condition: ValueError("Task ... not found for user ...")
NotFound(store, nid, msg) == [Raised(store, nid, msg) EXCEPT !.kind = "not_found"]

\* a tool call that returned
Returned(store, nid, touched, title, tid, count) ==
  [ok |-> TRUE, kind |-> "ok", exc |-> <<>>, store |-> store, nid |-> nid,
   touched |-> touched, title |-> title, task_id |-> tid, count |-> count]

\* str(KeyError(k))
KeyErrorText(k) == <<"'", k, "'">>

InvalidUserText(uid) == <<"Invalid user: ">> \o uid

NotFoundByIdText(tid, uid) == <<"Task ">> \o tid \o <<" not found for user ">> \o uid

NotFoundByTitleText(title, uid) ==
  <<"Task with title '">> \o title \o <<"' not found for user ">> \o uid

\* faulty variant: any integer is accepted
validate_user_any_integer(user_id) == ParseInt(user_id).ok

\* MockAuthService.validate_user
validate_user(user_id) ==
  LET n == ParseInt(user_id) IN n.ok /\ n.val > 0

\* faulty variant: the description of the call is not stored
NewTaskNoDescription(nid, uid, title, description) == TaskRow(nid, uid, title, <<>>, FALSE)

\* server.py:49   Task(user_id=..., title=title, description=description, completed=False)
NewTask(nid, uid, title, description) == TaskRow(nid, uid, title, description, FALSE)

\* TodoMCPTools.add_task: the set of possible outcomes (one element)
add_task(params, store, nid) ==
  IF "user_id" \notin DOMAIN params THEN {Raised(store, nid, KeyErrorText("user_id"))}
  ELSE IF "title" \notin DOMAIN params THEN {Raised(store, nid, KeyErrorText("title"))}
  ELSE LET user_id == params["user_id"]
           title == params["title"]
           description == GetDefault(params, "description", <<>>)
       IN IF ~validate_user(user_id) THEN {Raised(store, nid, InvalidUserText(user_id))}
          ELSE LET row == NewTask(nid, ParseInt(user_id).val, title, description)
               IN {Returned(store \cup {row}, nid + 1, {row}, title, nid, 0)}

\* faulty variant: the status filter is not applied
StatusFilterIgnored(rows, status_filter) == rows

\* server.py:80-83: the rows a status filter keeps
StatusFilter(rows, status_filter) ==
  IF status_filter = <<"pending">> THEN {t \in rows : ~t.completed}
  ELSE IF status_filter = <<"completed">> THEN {t \in rows : t.completed}
  ELSE rows

\* TodoMCPTools.list_tasks
list_tasks(params, store, nid) ==
  IF "user_id" \notin DOMAIN params THEN {Raised(store, nid, KeyErrorText("user_id"))}
  ELSE LET user_id == params["user_id"]
           status_filter == GetDefault(params, "status", <<"all">>)
       IN IF ~validate_user(user_id) THEN {Raised(store, nid, InvalidUserText(user_id))}
          ELSE LET mine == {t \in store : t.user_id = ParseInt(user_id).val}
                   rows == StatusFilter(mine, status_filter)
               IN {Returned(store, nid, rows, NoneV, 0, Cardinality(rows))}

\* faulty variant: completing flips the flag
ToggleCompleted(task) == [task EXCEPT !.completed = ~task.completed]

\* server.py:124   task.completed = True
MarkCompleted(task) == [task EXCEPT !.completed = TRUE]

\* TodoMCPTools.complete_task
complete_task(params, store, nid) ==
  IF "user_id" \notin DOMAIN params THEN {Raised(store, nid, KeyErrorText("user_id"))}
  ELSE IF "task_id" \notin DOMAIN params THEN {Raised(store, nid, KeyErrorText("task_id"))}
  ELSE LET user_id == params["user_id"]
           task_id == params["task_id"]
       IN IF ~validate_user(user_id) THEN {Raised(store, nid, InvalidUserText(user_id))}
          ELSE IF ~ParseInt(task_id).ok
            THEN {Raised(store, nid, <<"Invalid user_id or task_id format">>)}
          ELSE LET found == RowsByIdOwner(store, ParseInt(task_id).val, ParseInt(user_id).val)
               IN IF found = {}
                    THEN {NotFound(store, nid, NotFoundByIdText(task_id, user_id))}
                  ELSE {LET done == MarkCompleted(task)
                        IN Returned((store \ {task}) \cup {done}, nid, {done},
                                    done.title, done.id, 0) : task \in found}

\* faulty variant: a title is preferred to the task id
SelectTaskTitleFirst(store, nid, task_id, task_title, pattern, user_id, noKeyText) ==
  IF task_title # NoneV
    THEN LET found == RowsByTitleOwner(store, pattern, ParseInt(user_id).val)
         IN [rows |-> found,
             err |-> IF found = {}
                       THEN {NotFound(store, nid, NotFoundByTitleText(task_title, user_id))}
                     ELSE {}]
  ELSE IF task_id # NoneV
    THEN LET found == RowsByIdOwner(store, ParseInt(task_id).val, ParseInt(user_id).val)
         IN [rows |-> found,
             err |-> IF found = {}
                       THEN {NotFound(store, nid, NotFoundByIdText(task_id, user_id))}
                     ELSE {}]
  ELSE [rows |-> {}, err |-> {Raised(store, nid, noKeyText)}]

\* the row selection shared by delete_task (server.py:153-181) and update_task
\* (server.py:218-244): by (task_id, owner) when task_id is given, else by
\* (title pattern, owner); .first() returns any one of the matching rows
SelectTask(store, nid, task_id, task_title, pattern, user_id, noKeyText) ==
  IF task_id # NoneV
    THEN IF ~ParseInt(task_id).ok
           THEN [rows |-> {}, err |-> {Raised(store, nid, <<"Invalid task_id format">>)}]
         ELSE LET found == RowsByIdOwner(store, ParseInt(task_id).val, ParseInt(user_id).val)
              IN [rows |-> found,
                  err |-> IF found = {}
                            THEN {NotFound(store, nid, NotFoundByIdText(task_id, user_id))}
                          ELSE {}]
  ELSE IF task_title # NoneV
    THEN LET found == RowsByTitleOwner(store, pattern, ParseInt(user_id).val)
         IN [rows |-> found,
             err |-> IF found = {}
                       THEN {NotFound(store, nid, NotFoundByTitleText(task_title, user_id))}
                     ELSE {}]
  ELSE [rows |-> {}, err |-> {Raised(store, nid, noKeyText)}]

\* TodoMCPTools.delete_task
delete_task(params, store, nid) ==
  IF "user_id" \notin DOMAIN params THEN {Raised(store, nid, KeyErrorText("user_id"))}
  ELSE LET user_id == params["user_id"]
           task_id == Get(params, "task_id")
           task_title == Or2(Get(params, "title"),
                         Or2(Get(params, "task_name"),
                         Or2(Get(params, "name"), Get(params, "task_title"))))
       IN IF ~validate_user(user_id) THEN {Raised(store, nid, InvalidUserText(user_id))}
          ELSE LET sel == SelectTask(store, nid, task_id, task_title,
                                     <<"%">> \o EscapeLike(task_title) \o <<"%">>, user_id,
                                     <<"Either task_id or title must be provided for deletion">>)
               IN sel.err \cup
                  {Returned(store \ {task}, nid, {task}, task.title, task.id, 0) :
                     task \in sel.rows}

\* TodoMCPTools.update_task
update_task(params, store, nid) ==
  IF "user_id" \notin DOMAIN params THEN {Raised(store, nid, KeyErrorText("user_id"))}
  ELSE LET user_id == params["user_id"]
           task_id == Get(params, "task_id")
           task_title == Or2(Get(params, "title_to_find"),
                         Or2(Get(params, "task_name"),
                         Or2(Get(params, "name"),
                         Or2(Get(params, "task_title"), Get(params, "title")))))
           new_title == Or2(Get(params, "new_title"), Get(params, "title"))
           new_description == Or2(Get(params, "new_description"), Get(params, "description"))
       IN IF ~validate_user(user_id) THEN {Raised(store, nid, InvalidUserText(user_id))}
          ELSE LET sel == SelectTask(store, nid, task_id, task_title,
                                     <<"%">> \o task_title \o <<"%">>, user_id,
                                     <<"Either task_id or title_to_find must be provided for update">>)
               IN sel.err \cup
                  {LET t1 == IF new_title # NoneV THEN [task EXCEPT !.title = new_title]
                             ELSE task
                       t2 == IF new_description # NoneV
                               THEN [t1 EXCEPT !.description = new_description]
                             ELSE t1
                   IN Returned((store \ {task}) \cup {t2}, nid, {t2}, t2.title, t2.id, 0) :
                     task \in sel.rows}

(***************************** fixed texts ***********************************)
LeadIn == <<"I've processed your request.", " ">>

SafeMsg == <<"Sorry, I encountered an error processing your request. Please try again.">>

InternalErrorDetail == <<"An error occurred while processing your request">>

AccessDenied == <<"Access denied">>

(***************************** tool dispatch *********************************)
FunctionNames == {"add_task", "list_tasks", "complete_task", "delete_task", "update_task"}

\* faulty variant: the model's user_id is trusted
NoOverride(arguments, uid) == arguments

\* chat.py:38   arguments["user_id"] = str(current_user.id)
OverrideUserId(arguments, uid) == SetKey(arguments, "user_id", ToStr(uid))

\* chat.py:42-58: the tool the name selects; an unknown name calls nothing
CallTool(function_name, params, store, nid) ==
  CASE function_name = "add_task" -> add_task(params, store, nid)
    [] function_name = "list_tasks" -> list_tasks(params, store, nid)
    [] function_name = "complete_task" -> complete_task(params, store, nid)
    [] function_name = "delete_task" -> delete_task(params, store, nid)
    [] function_name = "update_task" -> update_task(params, store, nid)
    [] OTHER -> {[Returned(store, nid, {}, NoneV, 0, 0) EXCEPT !.kind = "unknown"]}

\* chat.py:62   f"Error executing {function_name}: {str(e)}"
ErrorFragment(function_name, exc) == <<"Error executing ", function_name, ": ">> \o exc

\* chat.py:44-58: the fragment appended for a call that returned
SuccessFragment(function_name, out) ==
  CASE function_name = "add_task" -> <<"Added task: ">> \o out.title
    [] function_name = "list_tasks" -> <<"Found ">> \o ToStr(out.count) \o <<" tasks">>
    [] function_name = "complete_task" -> <<"Completed task: ">> \o out.title
    [] function_name = "delete_task" -> <<"Deleted task ID: ">> \o ToStr(out.task_id)
    [] function_name = "update_task" -> <<"Updated task: ">> \o out.title
    [] OTHER -> <<"Unknown function: ", function_name>>

\* faulty variant: a failed call leaves an empty fragment
FragmentEmptyOnError(function_name, out) ==
  IF out.ok THEN SuccessFragment(function_name, out) ELSE <<>>

\* chat.py:40-62: the fragment of one call, whatever its outcome
Fragment(function_name, out) ==
  IF out.ok THEN SuccessFragment(function_name, out)
  ELSE ErrorFragment(function_name, out.exc)

\* chat.py:64    "; ".join(results)
Summary(results) == Join(results, <<"; ">>)

(***************************** conversation store ****************************)
\* faulty variant: the conversation is looked up by id alone
get_conversation_any_owner(convs, conversation_id, user_id) ==
  {c \in convs : c.id = conversation_id}

\* ChatService.get_conversation
get_conversation(convs, conversation_id, user_id) ==
  {c \in convs : c.id = conversation_id /\ c.user_id = user_id}

\* faulty variant: the message is stored without its owner
MessageRowUnowned(conversation_id, user_id, role, content) ==
  [conversation_id |-> conversation_id, user_id |-> 0, role |-> role, content |-> content]

\* ChatService.add_message: the row appended to table "messages"
MessageRow(conversation_id, user_id, role, content) ==
  [conversation_id |-> conversation_id, user_id |-> user_id,
   role |-> role, content |-> content]

RECURSIVE SelectMsgs(_, _, _)
\* where(conversation_id == cid, user_id == uid).order_by(created_at.asc())
SelectMsgs(log, cid, uid) ==
  IF log = <<>> THEN <<>>
  ELSE (IF Head(log).conversation_id = cid /\ Head(log).user_id = uid
          THEN <<Head(log)>> ELSE <<>>) \o SelectMsgs(Tail(log), cid, uid)

\* ChatService.get_conversation_history: .order_by(created_at.asc()).limit(limit)
get_conversation_history(log, cid, uid, limit) ==
  LET all == SelectMsgs(log, cid, uid)
  IN SubSeq(all, 1, IF Len(all) < limit THEN Len(all) ELSE limit)

\* chat.py:108-113: the {role, content} view of the fetched rows
FormatHistory(rows) == [i \in 1..Len(rows) |-> [role |-> rows[i].role, content |-> rows[i].content]]

\* chat.py:119   formatted_history[:-1]
DropLast(seq) == IF seq = <<>> THEN <<>> ELSE SubSeq(seq, 1, Len(seq) - 1)

\* ai_agent_manager.py:23   conversation_history + [{"role": "user", "content": message}]
PrepareMessages(conversation_history, message) ==
  conversation_history \o <<[role |-> "user", content |-> message]>>

(***************************** operations outside a chat turn **************)
\* the record of the last operation made outside a chat turn (a tool invoked
\* directly, a REST request, a completion response being processed)
NoOp ==
  [op |-> "", caller |-> 0, fn |-> "", params |-> EmptyDict, task_id |-> 0,
   pre |-> {}, out |-> Raised({}, 0, <<>>), status |-> 0, detail |-> <<>>,
   raw |-> NoneV, result |-> EmptyDict]

(***************************** requests **************************************)
NoCall ==
  [fn |-> "", isobj |-> TRUE, given |-> NoneV, params |-> EmptyDict, pre |-> {},
   out |-> Raised({}, 0, <<>>)]

\* a request slot before a chat turn enters it
IdleReq ==
  [pc |-> "idle", caller |-> 0, path |-> <<>>, cid |-> 0, conv |-> 0, message |-> <<>>,
   history |-> <<>>, sent |-> <<>>, aitype |-> "", ncalls |-> 0, idx |-> 0,
   calls |-> <<>>, results |-> <<>>, model_content |-> NoneV, response_content |-> <<>>,
   outcome |-> "", reply |-> <<>>,
   \* history variables of the turn
   tasks0 |-> {}, msgs0 |-> 0, seen |-> 0, convs0 |-> {}, raised |-> {}, last |-> NoCall,
   attempted |-> 0, nOk |-> 0, nNotFound |-> 0, completionCalls |-> 0, storeOps |-> 0]

(***************************** inputs ****************************************)
T1 == <<"a">>           \* a title created through the REST endpoint
T2 == <<"A", "b">>      \* the title the model asks add_task to create
NT == <<"b">>           \* a new title for update_task
D1 == <<"d">>           \* a description

\* the user_id values the model may put in a call's arguments
Embedded == {ToStr(u) : u \in Users}

\* the path parameter {user_id} of POST /{user_id}/chat
Paths == {ToStr(u) : u \in Users}

\* a tool call of a completion result: the function name and the decoded
\* arguments (isobj: the arguments string decoded to a JSON object)
Call(fn, args) == [fn |-> fn, isobj |-> TRUE, args |-> args]

\* the calls in which the model's user_id takes every value
MainCalls(e) ==
  {Call("add_task", [user_id |-> e, title |-> T2]),
   Call("list_tasks", [user_id |-> e]),
   Call("complete_task", [user_id |-> e, task_id |-> ToStr(1)]),
   Call("delete_task", [user_id |-> e, task_id |-> ToStr(1)]),
   Call("update_task", [user_id |-> e, task_id |-> ToStr(1), new_title |-> NT])}

\* the tool calls a completion result may list: the five functions addressed
\* by id and by title, with a missing key, a malformed or unknown task id, an
\* unknown function name, and a call whose arguments string decodes to a JSON
\* value that is not an object
ToolCalls ==
  UNION {MainCalls(e) : e \in Embedded}
  \cup {Call("add_task", [user_id |-> ToStr(2)]),
        Call("complete_task", [user_id |-> ToStr(2), task_id |-> ToStr(MaxTasks + 1)]),
        Call("complete_task", [user_id |-> ToStr(2), task_id |-> <<"x">>]),
        Call("delete_task", [user_id |-> ToStr(2), title |-> T1]),
        Call("delete_task", EmptyDict),
        Call("update_task", [user_id |-> ToStr(2), title_to_find |-> T1,
                             new_description |-> D1]),
        Call("frobnicate", [user_id |-> ToStr(2)]),
        [fn |-> "add_task", isobj |-> FALSE, args |-> EmptyDict]}

RECURSIVE Unary(_)
Unary(k) == IF k = 0 THEN <<>> ELSE <<"x">> \o Unary(k - 1)

(***************************** completion client *****************************)
ToolsPlaceholder == <<"Processing your request with tools...">>

\* AIAgentService._process_response, for choice.message with its content
\* (None or a string) and its tool_calls (the empty sequence stands for the
\* two falsy values of line 79, None and the empty list)
process_response(message) ==
  IF message.tool_calls # <<>>
    THEN LET content0 == Or2(message.content, <<>>)
             content == IF content0 = NoneV THEN ToolsPlaceholder ELSE content0
         IN [type |-> "tool_calls", tool_calls |-> message.tool_calls, content |-> content]
  ELSE [type |-> "message", content |-> Or2(message.content, <<>>)]

HelpPlaceholder == <<"I'm here to help with your tasks!">>

\* faulty variant: the content is taken as it is
MessageReplyRaw(ai_result) == ai_result["content"]

\* chat.py:135   ai_result.get("content", "I'm here to help with your tasks!")
MessageReply(ai_result) == GetDefault(ai_result, "content", HelpPlaceholder)

(***************************** chat turn *************************************)
\* faulty variant: the path user id is not compared
PathAlwaysMatches(caller, path) == TRUE

\* chat.py:81   str(current_user.id) != user_id  rejects the turn
PathMatches(caller, path) == ToStr(caller) = path

\* the request slot at the start of a turn
StartReq(caller, path) ==
  [IdleReq EXCEPT !.caller = caller, !.path = path, !.tasks0 = tasks,
                  !.msgs0 = Len(messages), !.convs0 = conversations]

\* chat.py:81-86: HTTP 403 before the pipeline is entered
RejectTurn(r, caller, path) ==
  /\ reqs[r].pc \in {"idle", "done"}
  /\ turnsLeft > 0
  /\ ~PathMatches(caller, path)
  /\ reqs' = [reqs EXCEPT ![r] =
       [StartReq(caller, path) EXCEPT !.pc = "done", !.outcome = "forbidden",
                                      !.reply = AccessDenied]]
  /\ turnsLeft' = turnsLeft - 1
  /\ UNCHANGED <<lastOp, tasks, nextTaskId, conversations, nextConvId, messages>>

\* chat.py:89-102: get_or_create_conversation, then add_message(role="user")
Receive(r, caller, path, cid, message) ==
  /\ reqs[r].pc \in {"idle", "done"}
  /\ turnsLeft > 0
  /\ PathMatches(caller, path)
  /\ LET found == IF cid # 0 THEN get_conversation(conversations, cid, caller) ELSE {}
         conv == IF found = {} THEN nextConvId ELSE cid
     IN /\ conversations' = IF found = {}
                              THEN conversations \cup {[id |-> nextConvId, user_id |-> caller]}
                            ELSE conversations
        /\ nextConvId' = IF found = {} THEN nextConvId + 1 ELSE nextConvId
        /\ messages' = Append(messages, MessageRow(conv, caller, "user", message))
        /\ reqs' = [reqs EXCEPT ![r] =
             [StartReq(caller, path) EXCEPT !.pc = "fetch", !.cid = cid, !.conv = conv,
                                            !.message = message, !.storeOps = 2]]
  /\ turnsLeft' = turnsLeft - 1
  /\ UNCHANGED <<lastOp, tasks, nextTaskId>>

\* chat.py:104-113, 119: the history handed to the agent manager
FetchHistory(r) ==
  /\ reqs[r].pc = "fetch"
  /\ LET rows == get_conversation_history(messages, reqs[r].conv, reqs[r].caller, HistoryLimit)
     IN reqs' = [reqs EXCEPT ![r].pc = "complete",
                             ![r].history = DropLast(FormatHistory(rows)),
                             ![r].seen = Len(messages),
                             ![r].storeOps = @ + 1]
  /\ UNCHANGED <<lastOp, tasks, nextTaskId, conversations, nextConvId, messages, turnsLeft>>

\* faulty variant: the exception text is returned as the content
ErrorResultRaw(e) == e

\* ai_agent_manager.py:32-37: what process_message returns when the
\* completion call raised e
ErrorResult(e) == SafeMsg

\* chat.py:116-135 with a completion response that has no tool calls and the
\* content given (None or a string): _process_response, then chat.py:135
CompleteMessage(r, content) ==
  /\ reqs[r].pc = "complete"
  /\ LET ai_result == process_response([content |-> content, tool_calls |-> <<>>])
     IN reqs' = [reqs EXCEPT ![r].pc = "respond",
                             ![r].sent = PrepareMessages(reqs[r].history, reqs[r].message),
                             ![r].completionCalls = @ + 1,
                             ![r].aitype = ai_result["type"],
                             ![r].model_content = content,
                             ![r].response_content = MessageReply(ai_result)]
  /\ UNCHANGED <<lastOp, tasks, nextTaskId, conversations, nextConvId, messages, turnsLeft>>

\* chat.py:116-127 with a completion result of type "tool_calls" listing n calls
CompleteToolCalls(r, n) ==
  /\ reqs[r].pc = "complete"
  /\ reqs' = [reqs EXCEPT ![r].pc = "dispatch",
                          ![r].sent = PrepareMessages(reqs[r].history, reqs[r].message),
                          ![r].completionCalls = @ + 1,
                          ![r].aitype = "tool_calls",
                          ![r].ncalls = n]
  /\ UNCHANGED <<lastOp, tasks, nextTaskId, conversations, nextConvId, messages, turnsLeft>>

\* ai_agent_service.py:35-36 raises, ai_agent_manager.py:32-37 catches:
\* the result has type "error" and chat.py:134-135 takes its content
CompleteFailure(r, e) ==
  /\ reqs[r].pc = "complete"
  /\ reqs' = [reqs EXCEPT ![r].pc = "respond",
                          ![r].sent = PrepareMessages(reqs[r].history, reqs[r].message),
                          ![r].completionCalls = @ + 1,
                          ![r].aitype = "error",
                          ![r].raised = @ \cup {<<"AI agent error: ">> \o e},
                          ![r].response_content = ErrorResult(<<"AI agent error: ">> \o e)]
  /\ UNCHANGED <<lastOp, tasks, nextTaskId, conversations, nextConvId, messages, turnsLeft>>

\* faulty variant: the reply is the summary alone
ToolReplySummaryOnly(results) == Summary(results)

\* chat.py:133   f"I've processed your request. {tool_execution_result}"
ToolReply(results) == LeadIn \o Summary(results)

\* faulty variant: every call of the turn works on the store as the turn found it
SessionStoreAtStart(r) == reqs[r].tasks0

\* chat.py:31   tools = TodoMCPTools(db_session=session): the tools read and commit
\* through the session of the request, so a call sees what is committed
SessionStore(r) == tasks

\* chat.py:33-62: one iteration of the loop of execute_tool_calls, for a call
\* whose arguments are an object; the last iteration returns the summary
DispatchCall(r, call) ==
  /\ reqs[r].pc = "dispatch"
  /\ call.isobj
  /\ LET params == OverrideUserId(call.args, reqs[r].caller)
     IN \E out \in CallTool(call.fn, params, SessionStore(r), nextTaskId) :
          /\ out.nid <= MaxTasks + 1
          /\ tasks' = out.store
          /\ nextTaskId' = out.nid
          /\ LET results == Append(reqs[r].results, Fragment(call.fn, out))
                 last == reqs[r].idx + 1 = reqs[r].ncalls
             IN reqs' = [reqs EXCEPT
                  ![r].results = results,
                  ![r].idx = @ + 1,
                  ![r].pc = IF last THEN "respond" ELSE "dispatch",
                  ![r].response_content = IF last THEN ToolReply(results) ELSE @,
                  ![r].storeOps = @ + 1,
                  ![r].attempted = @ + 1,
                  ![r].raised = IF out.ok THEN @ ELSE @ \cup {out.exc},
                  ![r].nOk = IF out.kind = "ok" THEN @ + 1 ELSE @,
                  ![r].nNotFound = IF out.kind = "not_found" THEN @ + 1 ELSE @,
                  ![r].last = [fn |-> call.fn, isobj |-> TRUE,
                               given |-> Get(call.args, "user_id"),
                               params |-> params, pre |-> SessionStore(r), out |-> out]]
  /\ UNCHANGED <<lastOp, conversations, nextConvId, messages, turnsLeft>>

\* chat.py:116-127 with a completion result of type "tool_calls" whose list
\* of calls is given
CompleteToolCallsListing(r, calls) ==
  /\ reqs[r].pc = "complete"
  /\ reqs' = [reqs EXCEPT ![r].pc = "dispatch",
                          ![r].sent = PrepareMessages(reqs[r].history, reqs[r].message),
                          ![r].completionCalls = @ + 1,
                          ![r].aitype = "tool_calls",
                          ![r].ncalls = Len(calls),
                          ![r].calls = calls]
  /\ UNCHANGED <<lastOp, tasks, nextTaskId, conversations, nextConvId, messages, turnsLeft>>

\* chat.py:33   for tool_call in tool_calls: the iteration for the next call
\* of the list
DispatchNext(r) ==
  /\ reqs[r].pc = "dispatch"
  /\ reqs[r].idx < Len(reqs[r].calls)
  /\ DispatchCall(r, reqs[r].calls[reqs[r].idx + 1])

TypeErrorText == <<"'list' object does not support item assignment">>

\* chat.py:38 outside the try of chat.py:40: the arguments are not a dict, the
\* assignment raises TypeError, execute_tool_calls is left by the exception
\* and chat.py:157-162 answers HTTP 500
DispatchRaises(r, call) ==
  /\ reqs[r].pc = "dispatch"
  /\ ~call.isobj
  /\ reqs' = [reqs EXCEPT ![r].pc = "done",
                          ![r].outcome = "error",
                          ![r].reply = InternalErrorDetail,
                          ![r].attempted = @ + 1,
                          ![r].raised = @ \cup {TypeErrorText},
                          ![r].last = [NoCall EXCEPT !.fn = call.fn, !.isobj = FALSE,
                                                     !.pre = tasks,
                                                     !.out = Raised(tasks, nextTaskId, TypeErrorText)]]
  /\ UNCHANGED <<lastOp, tasks, nextTaskId, conversations, nextConvId, messages, turnsLeft>>

\* faulty variant: the reply overwrites the last stored message
RespondOverwrites(r) ==
  /\ reqs[r].pc = "respond"
  /\ messages' = [messages EXCEPT ![Len(messages)] =
                    MessageRow(reqs[r].conv, reqs[r].caller, "assistant",
                               reqs[r].response_content)]
  /\ reqs' = [reqs EXCEPT ![r].pc = "done", ![r].outcome = "ok",
                          ![r].reply = reqs[r].response_content]
  /\ UNCHANGED <<lastOp, tasks, nextTaskId, conversations, nextConvId, turnsLeft>>

\* chat.py:137-155: add_message(role="assistant"), update_conversation_timestamp
\* (the updated_at column is not part of the state), and the response
Respond(r) ==
  /\ reqs[r].pc = "respond"
  /\ messages' = Append(messages, MessageRow(reqs[r].conv, reqs[r].caller, "assistant",
                                             reqs[r].response_content))
  /\ reqs' = [reqs EXCEPT ![r].pc = "done",
                          ![r].outcome = "ok",
                          ![r].reply = reqs[r].response_content,
                          ![r].storeOps = @ + 2]
  /\ UNCHANGED <<lastOp, tasks, nextTaskId, conversations, nextConvId, turnsLeft>>

StoreErrorText == <<"(OperationalError) server closed the connection unexpectedly">>

\* faulty variant: the failure rolls the turn's messages back
StoreFailureRollsBack(r) ==
  /\ reqs[r].pc \in {"fetch", "respond"}
  /\ reqs' = [reqs EXCEPT ![r].pc = "done", ![r].outcome = "error",
                          ![r].reply = InternalErrorDetail]
  /\ messages' = SubSeq(messages, 1, reqs[r].msgs0)
  /\ UNCHANGED <<lastOp, tasks, nextTaskId, conversations, nextConvId, turnsLeft>>

\* chat.py:157-162: a store operation of the turn (the history query, or the
\* insert of the assistant message) raises; the turn answers HTTP 500
StoreFailure(r) ==
  /\ reqs[r].pc \in {"fetch", "respond"}
  /\ reqs' = [reqs EXCEPT ![r].pc = "done",
                          ![r].outcome = "error",
                          ![r].reply = InternalErrorDetail,
                          ![r].raised = @ \cup {StoreErrorText}]
  /\ UNCHANGED <<lastOp, tasks, nextTaskId, conversations, nextConvId, messages, turnsLeft>>

\* api/tasks.py:37-55 with task_service.create_task: POST /tasks by user u.
\* The store is filled before the chat turns that are followed.
RestCreateTask(u, title) ==
  /\ \A r \in DOMAIN reqs : reqs[r].pc = "idle"
  /\ nextTaskId <= MaxTasks
  /\ LET row == TaskRow(nextTaskId, u, title, NoneV, FALSE)
     IN /\ tasks' = tasks \cup {row}
        /\ lastOp' = [NoOp EXCEPT !.op = "POST", !.caller = u, !.task_id = nextTaskId,
                                  !.pre = tasks, !.status = 200,
                                  !.out = Returned(tasks \cup {row}, nextTaskId + 1, {row},
                                                   title, nextTaskId, 0)]
  /\ nextTaskId' = nextTaskId + 1
  /\ UNCHANGED <<conversations, nextConvId, messages, reqs, turnsLeft>>

(***************************** direct tool invocation ***********************)
\* the titles add_task is asked to create and the texts delete_task searches
AddTitles == {T2, NT}

SearchKeys == {<<"a", "B">>, <<"b">>, <<"c">>, <<>>}

Statuses == {<<"all">>, <<"pending">>, <<"completed">>}

\* the parameter dictionaries given to a tool invoked directly, as
\* test_mcp_access_control.py does: tools.add_task({"user_id": ..., ...})
ToolParams(fn) ==
  CASE fn = "add_task" ->
         {[user_id |-> e, title |-> t, description |-> D1] : e \in Embedded, t \in AddTitles}
    [] fn = "list_tasks" ->
         {[user_id |-> e] : e \in Embedded}
         \cup {[user_id |-> e, status |-> st] : e \in Embedded, st \in Statuses}
    [] fn = "complete_task" ->
         {[user_id |-> e, task_id |-> ToStr(i)] : e \in Embedded, i \in 1..MaxTasks}
    [] fn = "delete_task" ->
         {[user_id |-> e, title |-> k] : e \in Embedded, k \in SearchKeys}
         \cup {[user_id |-> e, task_id |-> ToStr(1)] : e \in Embedded}
    [] OTHER -> {}

\* a tool of TodoMCPTools invoked with params on the session of the store
InvokeTool(fn, params) ==
  /\ \E out \in CallTool(fn, params, tasks, nextTaskId) :
       /\ out.nid <= MaxTasks + 1
       /\ tasks' = out.store
       /\ nextTaskId' = out.nid
       /\ lastOp' = [NoOp EXCEPT !.op = "tool", !.fn = fn, !.params = params,
                                 !.caller = ParseInt(Get(params, "user_id")).val,
                                 !.pre = tasks, !.out = out]
  /\ UNCHANGED <<conversations, nextConvId, messages, reqs, turnsLeft>>

\* a second description, a title holding a wildcard character, and the texts
\* a title search is given
\* schemas/task.py:17, 24: the lengths the request schemas allow
TitleMax == 200

DescriptionMax == 1000

D2 == <<"e">>

TP == <<"a", "%">>

ArgKeys == {<<"b">>, <<"%">>, <<"_">>}

\* user ids that are not well-formed positive integers
BadUserIds == {<<"x">>, ToStr(0), ToStr(-1)}

\* the argument shapes the model may choose for a tool (tools.py leaves the
\* alias names and the combinations open): by id, by each title alias, by
\* both, by neither, with a wildcard character as the search text, and with
\* a user id that is not a positive integer
ArgParams(fn) ==
  LET u == ToStr(1)
      one == ToStr(1)
      k == <<"b">>
  IN CASE fn = "add_task" ->
            {[user_id |-> u, title |-> t, description |-> D1] : t \in {T2, TP}}
            \cup {[user_id |-> ToStr(2), title |-> T2, description |-> D1]}
            \cup {[user_id |-> b, title |-> T2] : b \in BadUserIds}
       [] fn = "list_tasks" -> {[user_id |-> b] : b \in BadUserIds}
       [] fn = "complete_task" -> {[user_id |-> b, task_id |-> one] : b \in BadUserIds}
       [] fn = "delete_task" ->
            {[user_id |-> u, title |-> key] : key \in ArgKeys}
            \cup {[user_id |-> u, task_name |-> k], [user_id |-> u, name |-> k],
                  [user_id |-> u, task_title |-> k],
                  [user_id |-> u, task_id |-> one, title |-> k],
                  [user_id |-> u]}
            \cup {[user_id |-> b, task_id |-> one] : b \in BadUserIds}
       [] fn = "update_task" ->
            {[user_id |-> u, title_to_find |-> key, new_description |-> D2] : key \in ArgKeys}
            \cup {[user_id |-> u, task_id |-> one, new_title |-> NT],
                  [user_id |-> u, task_id |-> one, new_description |-> D2],
                  [user_id |-> u, title |-> k, new_description |-> D2],
                  [user_id |-> u, task_name |-> k, new_title |-> NT],
                  [user_id |-> u, name |-> k, new_description |-> D2],
                  [user_id |-> u, task_title |-> k, new_title |-> NT],
                  [user_id |-> u, task_id |-> one, title_to_find |-> k,
                   new_description |-> D2],
                  [user_id |-> u, new_title |-> NT]}
            \cup {[user_id |-> b, task_id |-> one, new_title |-> NT] : b \in BadUserIds}
       [] OTHER -> {}

(***************************** REST task endpoints ***************************)
TaskNotFound == <<"Task not found">>

TaskDeleted == <<"Task deleted successfully">>

\* a response of the task router: the status code, the detail or message
\* text, the task in the body, and the store afterwards
Response(status, detail, task, store) ==
  [status |-> status, detail |-> detail, task |-> task, store |-> store]

\* faulty variant: task_service.get_task, the lookup by id alone
get_task_any_owner(store, task_id, user_id) == {t \in store : t.id = task_id}

\* task_service.get_task_for_user
get_task_for_user(store, task_id, user_id) ==
  {t \in store : t.id = task_id /\ t.user_id = user_id}

\* api/tasks.py:63-79   GET /tasks/{task_id}
read_task(store, user, task_id) ==
  LET found == get_task_for_user(store, task_id, user)
  IN IF found = {} THEN {Response(404, TaskNotFound, {}, store)}
     ELSE {Response(200, <<>>, {task}, store) : task \in found}

\* api/tasks.py:108-109: setattr for every field the body sets
ApplyBody(task, body) ==
  [f \in DOMAIN task |-> IF f \in DOMAIN body THEN body[f] ELSE task[f]]

\* api/tasks.py:90-113   PUT /tasks/{task_id}
update_task_endpoint(store, user, task_id, body) ==
  LET found == get_task_for_user(store, task_id, user)
  IN IF found = {} THEN {Response(404, TaskNotFound, {}, store)}
     ELSE {LET updated == ApplyBody(task, body)
           IN Response(200, <<>>, {updated}, (store \ {task}) \cup {updated}) :
             task \in found}

\* api/tasks.py:124-148   DELETE /tasks/{task_id}
delete_task_endpoint(store, user, task_id) ==
  LET found == {t \in store : t.id = task_id /\ t.user_id = user}
  IN IF found = {} THEN {Response(200, TaskDeleted, {}, store)}
     ELSE {Response(200, TaskDeleted, {}, store \ {task}) : task \in found}

\* the bodies of PUT /tasks/{task_id}: the fields the client sets
Bodies == {[title |-> NT], [completed |-> TRUE], [title |-> NT, description |-> D1]}

\* a request to /tasks/{task_id} by the authenticated user, answered with
\* one of the responses
RestRequest(method, user, task_id, responses) ==
  /\ \E resp \in responses :
       /\ tasks' = resp.store
       /\ lastOp' = [NoOp EXCEPT !.op = method, !.caller = user, !.task_id = task_id,
                                 !.pre = tasks, !.status = resp.status,
                                 !.detail = resp.detail,
                                 !.out = Returned(resp.store, nextTaskId, resp.task,
                                                  NoneV, task_id, 0)]
  /\ UNCHANGED <<nextTaskId, conversations, nextConvId, messages, reqs, turnsLeft>>

RestRead(user, task_id) ==
  RestRequest("GET", user, task_id, read_task(tasks, user, task_id))

RestUpdate(user, task_id, body) ==
  RestRequest("PUT", user, task_id, update_task_endpoint(tasks, user, task_id, body))

RestDelete(user, task_id) ==
  RestRequest("DELETE", user, task_id, delete_task_endpoint(tasks, user, task_id))

(***************************** completion responses **************************)
\* the content of a completion response
Contents == {NoneV, <<>>, <<"o", "k">>}

\* the tool_calls of a completion response
CallLists == UNION {[1..n -> ToolCalls] : n \in 0..MaxCalls}

\* ai_agent_service.py:27-34: the completion response is processed (each
\* behaviour follows one call of run_conversation)
RunConversation(message) ==
  /\ lastOp = NoOp
  /\ lastOp' = [NoOp EXCEPT !.op = "completion", !.raw = message,
                            !.result = process_response(message)]
  /\ UNCHANGED <<tasks, nextTaskId, conversations, nextConvId, messages, reqs, turnsLeft>>

(***************************** specifications ********************************)
Slots == {1}

InitStores ==
  /\ tasks = {}
  /\ nextTaskId = 1
  /\ conversations = {}
  /\ nextConvId = 1
  /\ messages = <<>>
  /\ reqs = [r \in Slots |-> IdleReq]
  /\ lastOp = NoOp

\* the dispatcher specification follows one chat turn
Init == InitStores /\ turnsLeft = 1

Next ==
  \/ \E r \in Slots, caller \in Users, path \in Paths : RejectTurn(r, caller, path)
  \/ \E r \in Slots, caller \in Users, path \in Paths, cid \in {0, 1} :
       Receive(r, caller, path, cid, <<"h", "i">>)
  \/ \E r \in Slots : FetchHistory(r)
  \/ \E r \in Slots, content \in {NoneV, <<>>, <<"o", "k">>} : CompleteMessage(r, content)
  \/ \E r \in Slots, n \in 1..MaxCalls : CompleteToolCalls(r, n)
  \/ \E r \in Slots : CompleteFailure(r, <<"Connection error.">>)
  \/ \E r \in Slots, call \in ToolCalls : DispatchCall(r, call)
  \/ \E r \in Slots, call \in ToolCalls : DispatchRaises(r, call)
  \/ \E r \in Slots : Respond(r)
  \/ \E r \in Slots : StoreFailure(r)
  \/ \E u \in Users : RestCreateTask(u, T1)

Spec == Init /\ [][Next]_vars

\* the history specification: one user continues one conversation, turn
\* after turn; turn k sends the text MsgText(k) and is answered ReplyText(k)
TurnNo == MaxHistTurns - turnsLeft + 1

MsgText(k) == <<"m">> \o Unary(k)

ReplyText(k) == <<"r">> \o Unary(k)

InitHist == InitStores /\ turnsLeft = MaxHistTurns

NextHist ==
  \/ \E r \in Slots : Receive(r, 1, ToStr(1), reqs[r].conv, MsgText(TurnNo))
  \/ \E r \in Slots : FetchHistory(r)
  \/ \E r \in Slots : CompleteMessage(r, ReplyText(TurnNo - 1))
  \/ \E r \in Slots : Respond(r)

SpecHist == InitHist /\ [][NextHist]_vars

\* the conversation specification: chat turns of both users, one after the
\* other, each naming no conversation, an existing one (its own or the other
\* user's) or an unknown one; every stored text is distinct
InitConv == InitStores /\ turnsLeft = MaxConvTurns

NextConv ==
  \/ \E r \in Slots, caller \in Users, cid \in 0..(MaxConvTurns + 1) :
       Receive(r, caller, ToStr(caller), cid, MsgText(Len(messages)))
  \/ \E r \in Slots : FetchHistory(r)
  \/ \E r \in Slots : CompleteMessage(r, ReplyText(Len(messages)))
  \/ \E r \in Slots : CompleteToolCalls(r, 1)
  \/ \E r \in Slots : CompleteFailure(r, <<"Connection error.">>)
  \/ \E r \in Slots : DispatchCall(r, Call("list_tasks", [user_id |-> ToStr(1)]))
  \/ \E r \in Slots : Respond(r)
  \/ \E r \in Slots : StoreFailure(r)

SpecConv == InitConv /\ [][NextConv]_vars

\* the ordering specification: the store is filled, then one turn runs the
\* calls its completion result lists
OrderCalls ==
  MainCalls(ToStr(1))
  \cup {Call("add_task", [user_id |-> ToStr(1)]),
        Call("add_task", [user_id |-> ToStr(1), title |-> <<>>])}

ListedCalls == UNION {[1..n -> OrderCalls] : n \in 1..MaxCalls}

NextOrder ==
  \/ \E u \in Users : RestCreateTask(u, T1)
  \/ \E r \in Slots, caller \in Users : Receive(r, caller, ToStr(caller), 0, <<"h", "i">>)
  \/ \E r \in Slots : FetchHistory(r)
  \/ \E r \in Slots, calls \in ListedCalls : CompleteToolCallsListing(r, calls)
  \/ \E r \in Slots : DispatchNext(r)
  \/ \E r \in Slots : Respond(r)

SpecOrder == Init /\ [][NextOrder]_vars

\* the overlap specification: two requests are served at the same time, so
\* the steps of two turns of one user interleave
MaxOverlapTurns == 3

OverlapSlots == {1, 2}

InitOverlap ==
  /\ tasks = {}
  /\ nextTaskId = 1
  /\ conversations = {}
  /\ nextConvId = 1
  /\ messages = <<>>
  /\ reqs = [r \in OverlapSlots |-> IdleReq]
  /\ lastOp = NoOp
  /\ turnsLeft = MaxOverlapTurns

NextOverlap ==
  \/ \E r \in OverlapSlots, cid \in {0, 1} :
       Receive(r, 1, ToStr(1), cid, MsgText(Len(messages)))
  \/ \E r \in OverlapSlots : FetchHistory(r)
  \/ \E r \in OverlapSlots : CompleteMessage(r, ReplyText(Len(messages)))
  \/ \E r \in OverlapSlots : Respond(r)

SpecOverlap == InitOverlap /\ [][NextOverlap]_vars

\* the REST specification: the task router used by both users
NextRest ==
  \/ \E u \in Users : RestCreateTask(u, T1)
  \/ \E u \in Users, id \in 1..(MaxTasks + 1) : RestRead(u, id)
  \/ \E u \in Users, id \in 1..(MaxTasks + 1), body \in Bodies : RestUpdate(u, id, body)
  \/ \E u \in Users, id \in 1..(MaxTasks + 1) : RestDelete(u, id)

SpecRest == Init /\ [][NextRest]_vars

\* the completion specification: responses of the model are processed
NextAgent ==
  \E content \in Contents, calls \in CallLists :
    RunConversation([content |-> content, tool_calls |-> calls])

SpecAgent == Init /\ [][NextAgent]_vars

\* the tool specification: the tools of TodoMCPTools invoked one after the
\* other on one store
NextTools ==
  \/ \E params \in ToolParams("add_task") : InvokeTool("add_task", params)
  \/ \E params \in ToolParams("list_tasks") : InvokeTool("list_tasks", params)
  \/ \E params \in ToolParams("complete_task") : InvokeTool("complete_task", params)
  \/ \E params \in ToolParams("delete_task") : InvokeTool("delete_task", params)

SpecTools == Init /\ [][NextTools]_vars

\* the argument specification: the tools invoked with the argument shapes
NextArgs ==
  \/ \E params \in ArgParams("add_task") : InvokeTool("add_task", params)
  \/ \E params \in ArgParams("list_tasks") : InvokeTool("list_tasks", params)
  \/ \E params \in ArgParams("complete_task") : InvokeTool("complete_task", params)
  \/ \E params \in ArgParams("delete_task") : InvokeTool("delete_task", params)
  \/ \E params \in ArgParams("update_task") : InvokeTool("update_task", params)

SpecArgs == Init /\ [][NextArgs]_vars

(***************************** properties ************************************)
Mine(store, u) == {t \in store : t.user_id = u}

Others(store, u) == {t \in store : t.user_id # u}

\* the rows a call created, changed or deleted
ChangedRows(c) == (c.pre \ c.out.store) \cup (c.out.store \ c.pre)

\* what the caller u can observe of a tool outcome: the result or the error
\* text, and the caller's own rows afterwards
Observable(o, u) ==
  [ok |-> o.ok, kind |-> o.kind, exc |-> o.exc, touched |-> o.touched,
   title |-> o.title, task_id |-> o.task_id, count |-> o.count,
   mine |-> Mine(o.store, u)]

Observables(fn, params, store, nid, u) ==
  {Observable(o, u) : o \in CallTool(fn, params, store, nid)}

\* C1: for every dispatched tool call, whatever user_id the model put in the
\* arguments, the tool receives the authenticated caller's id, and every row
\* the call created, read, completed, updated or deleted belongs to the
\* caller, never to the embedded user id when the two differ.
C1_CallerIdentity ==
  \A r \in DOMAIN reqs :
    LET q == reqs[r]
        c == q.last
    IN (c.fn # "" /\ c.isobj) =>
         /\ Get(c.params, "user_id") = ToStr(q.caller)
         /\ \A row \in c.out.touched \cup ChangedRows(c) :
              /\ row.user_id = q.caller
              /\ (c.given # ToStr(q.caller) => ToStr(row.user_id) # c.given)

\* a delete by caller 1 succeeded although the model wrote user 2 into the
\* arguments, and user 2 owns a task
C1_Witness ==
  \E r \in DOMAIN reqs :
    LET q == reqs[r]
        c == q.last
    IN /\ c.fn = "delete_task" /\ c.out.ok
       /\ q.caller = 1 /\ c.given = ToStr(2)
       /\ Others(c.pre, 1) # {}
       /\ ChangedRows(c) # {}

\* C2: a tool operation issued as A never returns, modifies or deletes a
\* task owned by another user B, by id or by title, and its outcome is the
\* one it has on the store without the other users' tasks.
C2_Isolation ==
  \A r \in DOMAIN reqs :
    LET q == reqs[r]
        c == q.last
    IN (c.fn \in {"list_tasks", "complete_task", "delete_task", "update_task"} /\ c.isobj) =>
         /\ Others(c.out.store, q.caller) = Others(c.pre, q.caller)
         /\ \A row \in c.out.touched : row.user_id = q.caller
         /\ Observables(c.fn, c.params, c.pre, 1, q.caller)
              = Observables(c.fn, c.params, Mine(c.pre, q.caller), 1, q.caller)

\* a delete by title succeeded while the caller and another user both owned
\* a task with that very title
C2_Witness ==
  \E r \in DOMAIN reqs :
    LET q == reqs[r]
        c == q.last
    IN /\ c.fn = "delete_task" /\ "title" \in DOMAIN c.params /\ c.out.ok
       /\ \E t \in Others(c.pre, q.caller) : t.title = c.params["title"]
       /\ \E t \in Mine(c.pre, q.caller) : t.title = c.params["title"]

\* the call addresses a task by a well-formed task id
ById(c) ==
  /\ c.fn \in {"complete_task", "delete_task", "update_task"}
  /\ c.isobj
  /\ "task_id" \in DOMAIN c.params
  /\ ParseInt(c.params["task_id"]).ok

\* C3: complete_task, delete_task or update_task addressed to a task id X
\* that the caller does not own ends the same way whether X belongs to
\* another user or to nobody: the not-found failure naming X and the caller,
\* the store unchanged, the same outcome as on the store without row X.
C3_UniformNotFound ==
  \A r \in DOMAIN reqs :
    LET q == reqs[r]
        c == q.last
        X == ParseInt(c.params["task_id"]).val
    IN (ById(c) /\ \A t \in c.pre : ~(t.id = X /\ t.user_id = q.caller)) =>
         /\ c.out.kind = "not_found"
         /\ c.out.exc = NotFoundByIdText(c.params["task_id"], ToStr(q.caller))
         /\ c.out.store = c.pre
         /\ q.results[Len(q.results)] = ErrorFragment(c.fn, c.out.exc)
         /\ Observables(c.fn, c.params, c.pre, 1, q.caller)
              = Observables(c.fn, c.params, {t \in c.pre : t.id # X}, 1, q.caller)

\* the addressed id exists and belongs to another user
C3_Witness ==
  \E r \in DOMAIN reqs :
    LET q == reqs[r]
        c == q.last
    IN /\ ById(c)
       /\ \E t \in c.pre : t.id = ParseInt(c.params["task_id"]).val /\ t.user_id # q.caller

\* the store shows the effect of the successful call c
TookEffect(c, store) ==
  CASE c.fn = "add_task" ->
         \E t \in store : /\ t.id = c.out.task_id /\ t.title = c.params["title"]
                          /\ t.user_id = ParseInt(c.params["user_id"]).val /\ ~t.completed
    [] c.fn = "complete_task" -> \E t \in store : t.id = c.out.task_id /\ t.completed
    [] c.fn = "delete_task" -> \A t \in store : t.id # c.out.task_id
    [] c.fn = "update_task" ->
         \E t \in store : /\ t.id = c.out.task_id
                          /\ ("new_title" \in DOMAIN c.params => t.title = c.params["new_title"])
                          /\ ("new_description" \in DOMAIN c.params
                                => t.description = c.params["new_description"])
    [] OTHER -> store = c.pre

\* C4: in a batch where a call fails with NotFound, every call taken so far
\* has a non-empty fragment; when the N calls of the batch all ended in
\* success or NotFound the dispatcher has returned the summary of exactly N
\* fragments; the failed call leaves the store as the earlier calls made it,
\* and a successful call shows its effect in the store.
C4_PartialFailure ==
  \A r \in DOMAIN reqs :
    LET q == reqs[r]
        c == q.last
    IN q.aitype = "tool_calls" =>
         /\ q.nNotFound >= 1 =>
              /\ Len(q.results) = q.idx
              /\ \A i \in 1..Len(q.results) : q.results[i] # <<>>
         /\ (q.nNotFound >= 1 /\ q.nNotFound + q.nOk = q.ncalls) =>
              /\ q.pc \in {"respond", "done"}
              /\ Len(q.results) = q.ncalls
              /\ q.response_content = LeadIn \o Summary(q.results)
         /\ c.out.kind = "not_found" => tasks = c.pre
         /\ (c.fn # "" /\ c.out.kind = "ok") => TookEffect(c, tasks)

\* a batch of two calls: the first failed with NotFound, the second added a
\* task, and the turn returned the reply
C4_Witness ==
  \E r \in DOMAIN reqs :
    LET q == reqs[r]
    IN /\ q.pc = "done" /\ q.outcome = "ok"
       /\ q.ncalls = 2 /\ q.nNotFound = 1 /\ q.nOk = 1
       /\ q.last.fn = "add_task" /\ q.last.out.ok

\* C5: whatever failure a tool call hits, execute_tool_calls records an
\* outcome for it, goes on to the remaining calls and returns the joined
\* summary: every call taken from the batch has its fragment, the batch is
\* left only after its last call, and then with the summary.
C5_NoAbort ==
  \A r \in DOMAIN reqs :
    LET q == reqs[r]
    IN q.aitype = "tool_calls" =>
         /\ Len(q.results) = q.attempted
         /\ q.attempted < q.ncalls => q.pc = "dispatch"
         /\ (q.attempted = q.ncalls /\ q.ncalls > 0) =>
              q.response_content = LeadIn \o Summary(q.results)

\* the history the claim describes for a turn that found n persisted
\* messages of its conversation: the most recent HistoryLimit of them, oldest
\* first, then the current message
ExpectedSent(q) ==
  LET prior == FormatHistory(SelectMsgs(SubSeq(messages, 1, q.msgs0), q.conv, q.caller))
      n == Len(prior)
      recent == IF n <= HistoryLimit THEN prior
                ELSE SubSeq(prior, n - HistoryLimit + 1, n)
  IN recent \o <<[role |-> "user", content |-> q.message]>>

\* C6: the messages given to the completion call are the previously
\* persisted messages of the conversation, oldest first, truncated to the
\* most recent 50, followed by the current message as the final entry.
C6_History ==
  \A r \in DOMAIN reqs :
    reqs[r].completionCalls >= 1 => reqs[r].sent = ExpectedSent(reqs[r])

\* C7: a turn whose path user id differs from the caller's id is rejected
\* with the authorization failure and nothing of the turn has run: no store
\* access, no conversation, no message, no completion call, no tool call.
C7_Gate ==
  \A r \in DOMAIN reqs :
    LET q == reqs[r]
    IN (q.pc # "idle" /\ ToStr(q.caller) # q.path) =>
         /\ q.pc = "done" /\ q.outcome = "forbidden" /\ q.reply = AccessDenied
         /\ q.storeOps = 0 /\ q.completionCalls = 0 /\ q.last = NoCall
         /\ conversations = q.convs0
         /\ Len(messages) = q.msgs0
         /\ tasks = q.tasks0

C7_Witness ==
  \E r \in DOMAIN reqs : reqs[r].outcome = "forbidden" /\ reqs[r].caller = 1
                         /\ reqs[r].path = ToStr(2) /\ tasks # {}

\* C8: from the moment the turn is ready to call the completion client, and
\* whatever happens afterwards (completion failure, dispatch exception,
\* store failure), the inbound user message is in the conversation store.
C8_UserMessageKept ==
  \A r \in DOMAIN reqs :
    LET q == reqs[r]
    IN (q.pc \in {"complete", "dispatch", "respond"}
        \/ (q.pc = "done" /\ q.outcome # "forbidden")) =>
         /\ Len(messages) > q.msgs0
         /\ messages[q.msgs0 + 1] = MessageRow(q.conv, q.caller, "user", q.message)

\* the completion client was called and a later step of the turn failed
C8_Witness ==
  \E r \in DOMAIN reqs :
    reqs[r].pc = "done" /\ reqs[r].outcome = "error" /\ reqs[r].completionCalls = 1

\* C9: when the completion call fails the turn ends in one outcome whose
\* text is the fixed safe message (or the fixed internal-error detail when
\* the store fails afterwards); no tool call is dispatched, no task is
\* changed, and the conversation holds the user message, followed by the
\* safe message once the turn has answered.
C9_CompletionFailure ==
  \A r \in DOMAIN reqs :
    LET q == reqs[r]
    IN q.aitype = "error" =>
         /\ q.response_content = SafeMsg
         /\ q.last = NoCall /\ q.attempted = 0 /\ q.results = <<>>
         /\ tasks = q.tasks0
         /\ q.pc \in {"respond", "done"}
         /\ q.pc = "respond" => Len(messages) = q.msgs0 + 1
         /\ (q.pc = "done" /\ q.outcome = "ok") =>
              /\ q.reply = SafeMsg
              /\ Len(messages) = q.msgs0 + 2
              /\ messages[q.msgs0 + 2] = MessageRow(q.conv, q.caller, "assistant", SafeMsg)
         /\ (q.pc = "done" /\ q.outcome # "ok") =>
              /\ q.outcome = "error" /\ q.reply = InternalErrorDetail
              /\ Len(messages) = q.msgs0 + 1

C9_Witness ==
  \E r \in DOMAIN reqs :
    reqs[r].aitype = "error" /\ reqs[r].pc = "done" /\ reqs[r].outcome = "ok"
    /\ tasks # {}

\* C10: no text that reaches the end user (the reply or error detail, the
\* persisted assistant message) contains the message of an exception raised
\* during the turn.
C10_NoRawException ==
  \A r \in DOMAIN reqs :
    LET q == reqs[r]
    IN \A e \in q.raised :
         /\ ~Contains(q.reply, e)
         /\ \A i \in (q.msgs0 + 1)..Len(messages) : ~Contains(messages[i].content, e)

\* C14: when the completion result is the ToolCalls variant and the turn
\* replies, the reply text is the lead-in "I've processed your request."
\* followed (after one space) by the dispatcher's joined summary of all the
\* calls; a single successful add_task creates the task for the caller and
\* the reply starts with the lead-in and contains "Added task: <title>".
C14_ToolReply ==
  \A r \in DOMAIN reqs :
    LET q == reqs[r]
        c == q.last
    IN (q.aitype = "tool_calls" /\ q.pc = "done" /\ q.outcome = "ok") =>
         /\ Len(q.results) = q.ncalls
         /\ q.reply = <<"I've processed your request.", " ">> \o Summary(q.results)
         /\ (q.ncalls = 1 /\ c.fn = "add_task" /\ c.out.ok) =>
              /\ \E t \in tasks \ q.tasks0 :
                   t.title = c.params["title"] /\ t.user_id = q.caller
              /\ StartsWith(q.reply, <<"I've processed your request.">>)
              /\ Contains(q.reply, <<"Added task: ">> \o c.params["title"])

\* the turn replied after a single successful add_task
C14_Witness ==
  \E r \in DOMAIN reqs :
    LET q == reqs[r]
    IN /\ q.aitype = "tool_calls" /\ q.pc = "done" /\ q.outcome = "ok"
       /\ q.ncalls = 1 /\ q.last.fn = "add_task" /\ q.last.out.ok
       /\ q.last.params["title"] = T2

\* C21: when the completion result contains no tool calls and the turn
\* replies, the reply is the model's own content, and when that content is
\* empty (or absent) the reply is the helpful-assistant placeholder, never
\* the empty string.
C21_MessageReply ==
  \A r \in DOMAIN reqs :
    LET q == reqs[r]
    IN (q.aitype = "message" /\ q.pc = "done" /\ q.outcome = "ok") =>
         /\ Truthy(q.model_content) => q.reply = q.model_content
         /\ ~Truthy(q.model_content) => (q.reply = HelpPlaceholder /\ q.reply # <<>>)

(***************************** conversations *********************************)
\* the conversation id the client supplied names a conversation the caller
\* owned when the turn began
Honoured(q) == \E c \in q.convs0 : c.id = q.cid /\ c.user_id = q.caller

\* C15: a turn uses the supplied conversation id only when a conversation
\* with that id exists and is owned by the caller; otherwise (absent, unknown
\* or another user's id) it creates a new conversation owned by the caller
\* and uses that one.  The messages the turn appends go to the conversation
\* used, the history it reads comes from it, and every stored message lies in
\* a conversation of the user it is stored under.
C15_ConversationResolution ==
  /\ \A i \in 1..Len(messages) :
       \E c \in conversations :
         c.id = messages[i].conversation_id /\ c.user_id = messages[i].user_id
  /\ \A r \in DOMAIN reqs :
       LET q == reqs[r]
       IN (q.pc # "idle" /\ q.outcome # "forbidden") =>
            /\ Honoured(q) => (q.conv = q.cid /\ conversations = q.convs0)
            /\ ~Honoured(q) =>
                 /\ \A c \in q.convs0 : c.id # q.conv
                 /\ conversations = q.convs0 \cup {[id |-> q.conv, user_id |-> q.caller]}
            /\ \A i \in (q.msgs0 + 1)..Len(messages) :
                 messages[i].conversation_id = q.conv /\ messages[i].user_id = q.caller
            /\ \A i \in 1..Len(q.history) :
                 \E k \in 1..Len(messages) :
                   /\ messages[k].content = q.history[i].content
                   /\ messages[k].role = q.history[i].role
                   /\ messages[k].conversation_id = q.conv
                   /\ messages[k].user_id = q.caller

\* a turn named a conversation of the other user, which held messages, and
\* has replied
C15_Witness ==
  \E r \in DOMAIN reqs :
    LET q == reqs[r]
    IN /\ q.pc = "done" /\ q.outcome = "ok"
       /\ \E c \in q.convs0 : c.id = q.cid /\ c.user_id # q.caller
       /\ \E i \in 1..q.msgs0 : messages[i].conversation_id = q.cid

\* seq continues old: old is its beginning
Continues(seq, old) ==
  /\ Len(seq) >= Len(old)
  /\ \A i \in 1..Len(old) : seq[i] = old[i]

\* C16: messages are append-only: in every step of every turn, successful or
\* failed, each message persisted before is still there with the same
\* conversation, role and content, and each conversation's message sequence
\* only grows at its end, in creation order.
C16_AppendOnly ==
  [][/\ Continues(messages', messages)
     /\ \A c \in conversations :
          Continues(SelectMsgs(messages', c.id, c.user_id),
                    SelectMsgs(messages, c.id, c.user_id))]_vars

\* two conversations hold messages and a later turn has failed
C16_Witness ==
  /\ \E r \in DOMAIN reqs : reqs[r].pc = "done" /\ reqs[r].outcome = "error"
  /\ Len(messages) >= 5
  /\ \E i, j \in 1..Len(messages) : messages[i].conversation_id # messages[j].conversation_id

\* the number of entries of the sent list that are the user message `text`
CountUser(sent, text) ==
  Cardinality({i \in 1..Len(sent) : sent[i].role = "user" /\ sent[i].content = text})

\* turns r and o are on the same conversation, and the inbound message of
\* each was stored before the other turn read the history
Overlapping(r, o) ==
  /\ r # o
  /\ reqs[o].pc # "idle" /\ reqs[o].conv = reqs[r].conv
  /\ reqs[o].msgs0 + 1 <= reqs[r].seen
  /\ (reqs[o].pc = "fetch" \/ reqs[r].msgs0 + 1 <= reqs[o].seen)

\* C28: when two turns on one conversation overlap, both inbound messages
\* being stored before either turn reads the history, the list a turn sends
\* to the model contains the turn's own message exactly once, as its last
\* entry, and the other turn's message at most once.
C28_OverlapHistory ==
  \A r, o \in DOMAIN reqs :
    (reqs[r].sent # <<>> /\ Overlapping(r, o)) =>
      /\ CountUser(reqs[r].sent, reqs[r].message) = 1
      /\ reqs[r].sent[Len(reqs[r].sent)] = [role |-> "user", content |-> reqs[r].message]
      /\ CountUser(reqs[r].sent, reqs[o].message) <= 1

\* C30: in a sequence of turns that do not overlap, a turn that returns a
\* reply has appended exactly two messages to the conversation it resolved,
\* the user's message and then the assistant's, both under the caller's user
\* id, and the reply returned is the stored assistant content.
C30_TwoMessages ==
  \A r \in DOMAIN reqs :
    LET q == reqs[r]
    IN (q.pc = "done" /\ q.outcome = "ok") =>
         /\ Len(messages) = q.msgs0 + 2
         /\ \E c \in conversations : c.id = q.conv /\ c.user_id = q.caller
         /\ messages[q.msgs0 + 1] = [conversation_id |-> q.conv, user_id |-> q.caller,
                                     role |-> "user", content |-> q.message]
         /\ messages[q.msgs0 + 2] = [conversation_id |-> q.conv, user_id |-> q.caller,
                                     role |-> "assistant", content |-> q.reply]

\* a later turn of the second user continues a conversation and is answered
C30_Witness ==
  \E r \in DOMAIN reqs :
    LET q == reqs[r]
    IN /\ q.pc = "done" /\ q.outcome = "ok" /\ q.caller = 2
       /\ q.msgs0 >= 2 /\ q.cid # 0 /\ q.conv = q.cid
       /\ Len(messages) = q.msgs0 + 2
       /\ messages[Len(messages)].content = q.reply

(***************************** tool contracts ********************************)
\* the user a directly invoked tool acts for
ToolCaller(c) == ParseInt(c.params["user_id"]).val

\* C11: for a caller with no task titled T, add_task(title=T, description=D)
\* followed by list_tasks(status="all") as the same caller returns a list with
\* exactly one entry titled T, and that entry has description D and
\* completed=false.
C11_RoundTrip ==
  LET c == lastOp
      T == Get(c.params, "title")
      D == Get(c.params, "description")
  IN (/\ c.op = "tool" /\ c.fn = "add_task"
      /\ "description" \in DOMAIN c.params
      /\ \A t \in Mine(c.pre, ToolCaller(c)) : t.title # T) =>
       /\ c.out.ok
       /\ \A l \in list_tasks([user_id |-> c.params["user_id"], status |-> <<"all">>],
                              tasks, nextTaskId) :
            /\ l.ok
            /\ Cardinality({t \in l.touched : t.title = T}) = 1
            /\ \A t \in l.touched : t.title = T => (t.description = D /\ ~t.completed)

\* the task was added with a description while another user already owned
\* a task with the same title
C11_Witness ==
  LET c == lastOp
  IN /\ c.op = "tool" /\ c.fn = "add_task" /\ c.out.ok
     /\ Get(c.params, "description") = D1
     /\ \E t \in Others(c.pre, ToolCaller(c)) : t.title = c.params["title"]
     /\ \A t \in Mine(c.pre, ToolCaller(c)) : t.title # c.params["title"]

\* C12: complete_task on a task of the caller that is already completed
\* succeeds and leaves the store as it was, the task still completed; after
\* any successful complete_task, applying the same call again succeeds and
\* gives the same store.
C12_CompleteIdempotent ==
  LET c == lastOp
      X == ParseInt(Get(c.params, "task_id")).val
  IN (c.op = "tool" /\ c.fn = "complete_task") =>
       /\ (\E t \in c.pre : t.id = X /\ t.user_id = ToolCaller(c) /\ t.completed) =>
            /\ c.out.ok
            /\ tasks = c.pre
            /\ \E t \in tasks : t.id = X /\ t.completed
       /\ c.out.ok =>
            \A again \in complete_task(c.params, tasks, nextTaskId) :
              /\ again.ok
              /\ again.store = tasks
              /\ \E t \in again.store : t.id = X /\ t.completed

\* complete_task succeeded on a task that was already completed
C12_Witness ==
  LET c == lastOp
  IN /\ c.op = "tool" /\ c.fn = "complete_task" /\ c.out.ok
     /\ \E t \in c.pre : /\ t.id = ParseInt(c.params["task_id"]).val
                          /\ t.user_id = ToolCaller(c) /\ t.completed

\* the case folding the claim describes, written out independently
Fold(ch) == CASE ch = "A" -> "a" [] ch = "B" -> "b" [] OTHER -> ch

\* text occurs in title when the case of the letters is ignored
ContainsIgnoringCase(title, text) ==
  \E i \in 0..(Len(title) - Len(text)) :
     \A j \in 1..Len(text) : Fold(title[i + j]) = Fold(text[j])

\* C13: delete_task by a title text matches case-insensitively and partially
\* within the caller's tasks: when a caller task's title contains the text
\* the call succeeds and deletes exactly one such task of the caller; when no
\* caller task's title contains it, the call fails with the not-found error
\* naming the given title and deletes nothing.
C13_DeleteByTitle ==
  LET c == lastOp
      key == Get(c.params, "title")
      hits == {t \in Mine(c.pre, ToolCaller(c)) : ContainsIgnoringCase(t.title, key)}
  IN (/\ c.op = "tool" /\ c.fn = "delete_task"
      /\ "task_id" \notin DOMAIN c.params /\ key # NoneV /\ key # <<>>) =>
       /\ hits # {} =>
            /\ c.out.ok
            /\ \E t \in hits : tasks = c.pre \ {t} /\ c.out.task_id = t.id
       /\ hits = {} =>
            /\ c.out.kind = "not_found"
            /\ c.out.exc = NotFoundByTitleText(key, c.params["user_id"])
            /\ Contains(c.out.exc, key)
            /\ tasks = c.pre

\* a delete by title removed a task whose title differs from the text in the
\* case of its letters, while another user owned a task with that title too
C13_Witness ==
  LET c == lastOp
  IN /\ c.op = "tool" /\ c.fn = "delete_task" /\ c.out.ok
     /\ Get(c.params, "title") = <<"a", "B">>
     /\ \E t \in c.pre \ tasks : t.title = <<"A", "b">>
     /\ \E t \in Others(c.pre, ToolCaller(c)) : t.title = <<"A", "b">>

\* C19: list_tasks returns exactly the caller's tasks narrowed by status:
\* "pending" those with completed=false, "completed" those with
\* completed=true, "all" or no status all of them; the store is unchanged.
C19_ListTasks ==
  LET c == lastOp
      st == Get(c.params, "status")
      mine == {t \in c.pre : t.user_id = ToolCaller(c)}
  IN (c.op = "tool" /\ c.fn = "list_tasks" /\ st \in Statuses \cup {NoneV}) =>
       /\ c.out.ok
       /\ st = <<"pending">> => c.out.touched = {t \in mine : ~t.completed}
       /\ st = <<"completed">> => c.out.touched = {t \in mine : t.completed}
       /\ st \in {<<"all">>, NoneV} => c.out.touched = mine
       /\ c.out.count = Cardinality(c.out.touched)
       /\ tasks = c.pre /\ c.out.store = c.pre

\* a list with status "pending" left out a completed task of the caller
\* while another user owned a pending task
C19_Witness ==
  LET c == lastOp
  IN /\ c.op = "tool" /\ c.fn = "list_tasks" /\ Get(c.params, "status") = <<"pending">>
     /\ \E t \in Mine(c.pre, ToolCaller(c)) : t.completed
     /\ \E t \in Others(c.pre, ToolCaller(c)) : ~t.completed

(***************************** REST contracts ********************************)
\* the request addressed a task id the authenticated user does not own
NotOwned(c) == \A t \in c.pre : ~(t.id = c.task_id /\ t.user_id = c.caller)

\* the request addressed a task of another user
OwnedByOther(c) == \E t \in c.pre : t.id = c.task_id /\ t.user_id # c.caller

\* C17: DELETE /tasks/{id} by a user who does not own task id returns 404
\* Not Found (not 403, not a success response) and leaves the task in the
\* store.
C17_DeleteNotOwned ==
  LET c == lastOp
  IN (c.op = "DELETE" /\ OwnedByOther(c)) =>
       /\ c.status = 404
       /\ tasks = c.pre

\* C18: GET /tasks/{id} and PUT /tasks/{id} by a user who does not own task
\* id return 404 "Task not found", the response they give when no task has
\* that id, and the store (the other user's task included) is unchanged.
C18_ReadUpdateNotOwned ==
  LET c == lastOp
      without == {t \in c.pre : t.id # c.task_id}
  IN (c.op \in {"GET", "PUT"} /\ NotOwned(c)) =>
       /\ c.status = 404 /\ c.status # 403
       /\ c.detail = TaskNotFound
       /\ c.out.touched = {}
       /\ tasks = c.pre
       /\ \A a \in read_task(c.pre, c.caller, c.task_id),
             b \in read_task(without, c.caller, c.task_id) :
            a.status = b.status /\ a.detail = b.detail /\ a.task = b.task
       /\ \A body \in Bodies :
            \A a \in update_task_endpoint(c.pre, c.caller, c.task_id, body),
               b \in update_task_endpoint(without, c.caller, c.task_id, body) :
              /\ a.status = b.status /\ a.detail = b.detail /\ a.task = b.task
              /\ a.store = c.pre

\* a PUT addressed a task that exists and belongs to the other user
C18_Witness ==
  LET c == lastOp
  IN /\ c.op = "PUT"
     /\ \E t \in c.pre : t.id = c.task_id /\ t.user_id # c.caller
     /\ Mine(c.pre, c.caller) # {}

(***************************** completion contracts **************************)
\* C20: in the ToolCalls result of the completion client the content field
\* is never null or missing, and when the model supplied no content it is
\* the default placeholder string.
C20_ContentNormalized ==
  LET c == lastOp
  IN (c.op = "completion" /\ c.result["type"] = "tool_calls") =>
       /\ "content" \in DOMAIN c.result
       /\ c.result["content"] # NoneV
       /\ c.raw.content = NoneV => c.result["content"] = ToolsPlaceholder

(***************************** calls of one turn *****************************)
\* the call ended in an error outcome: the tool raised, or no tool has the name
Failed(call) == call.fn # "" /\ call.isobj /\ (~call.out.ok \/ call.out.kind = "unknown")

\* C29: a tool call that ends in an error outcome (malformed identifier, task
\* not found, no identification, missing title, unknown function name) leaves
\* the task store exactly as it was before the call, and allots no task id.
C29_ErrorLeavesStore ==
  \A r \in DOMAIN reqs :
    LET q == reqs[r]
    IN (q.pc \in {"dispatch", "respond", "done"} /\ Failed(q.last)) =>
         /\ tasks = q.last.pre
         /\ q.last.out.store = q.last.pre
         /\ q.last.out.touched = {}
         /\ (q.attempted = 1 => tasks = q.tasks0)

C29_Witness ==
  \E r \in DOMAIN reqs :
    LET q == reqs[r]
    IN /\ q.pc = "done" /\ q.outcome = "ok" /\ q.attempted = 2 /\ q.nOk = 1
       /\ Failed(q.last) /\ q.last.out.kind = "not_found"
       /\ tasks # {} /\ tasks # q.tasks0

\* what running the calls one after another, each on the store the one
\* before it left, can give: the fragments in call order and the final store
RECURSIVE RunInOrder(_, _, _, _)
RunInOrder(calls, caller, store, nid) ==
  IF calls = <<>> THEN {[results |-> <<>>, store |-> store]}
  ELSE LET call == Head(calls)
       IN UNION {{[results |-> <<Fragment(call.fn, o)>> \o rest.results, store |-> rest.store] :
                    rest \in RunInOrder(Tail(calls), caller, o.store, o.nid)} :
                 o \in CallTool(call.fn, OverrideUserId(call.args, caller), store, nid)}

FoundText(n) == <<"Found ">> \o ToStr(n) \o <<" tasks">>

\* C23: the calls a completion result lists are executed one at a time in
\* the listed order, each on the store the calls before it committed: the
\* fragments so far and the store are those of running the listed calls in
\* sequence from the store the turn found, the summary of the reply joins the
\* fragments in call order, and list_tasks right after add_task counts the
\* task just added (and does not count it when listed before add_task).
C23_CallsInOrder ==
  \A r \in DOMAIN reqs :
    LET q == reqs[r]
        mine == Cardinality(Mine(q.tasks0, q.caller))
    IN (q.calls # <<>> /\ q.pc \in {"dispatch", "respond", "done"}) =>
         /\ Len(q.results) = q.idx
         /\ \E nid \in 1..(MaxTasks + 1) :
              \E run \in RunInOrder(SubSeq(q.calls, 1, q.idx), q.caller, q.tasks0, nid) :
                run.results = q.results /\ run.store = tasks
         /\ (q.idx >= 2 /\ q.calls[1].fn = "add_task" /\ Get(q.calls[1].args, "title") = T2
                /\ q.calls[2].fn = "list_tasks") =>
              q.results[2] = FoundText(mine + 1)
         /\ (q.idx >= 2 /\ q.calls[1].fn = "list_tasks" /\ q.calls[2].fn = "add_task") =>
              q.results[1] = FoundText(mine)
         /\ (q.pc = "done" /\ q.outcome = "ok") => q.reply = LeadIn \o Join(q.results, <<"; ">>)

C23_Witness ==
  \E r \in DOMAIN reqs :
    LET q == reqs[r]
    IN /\ q.pc = "done" /\ q.outcome = "ok" /\ Len(q.calls) = 2
       /\ q.calls[1].fn = "add_task" /\ q.calls[2].fn = "list_tasks"
       /\ Mine(q.tasks0, q.caller) # {}
       /\ q.results = <<<<"Added task: ">> \o T2, FoundText(2)>>

(***************************** argument contracts ****************************)
\* the row of the store with the id the call reported
RowOf(store, id) == {t \in store : t.id = id}

\* C22: update_task changes only the fields for which a new value is
\* supplied: without new_title (and with "title", if present, serving as the
\* search key of a call without task_id) the title is unchanged; without any
\* new description the description is unchanged.
C22_UpdateFrame ==
  LET c == lastOp
  IN (c.op = "tool" /\ c.fn = "update_task" /\ c.out.ok) =>
       \A before \in RowOf(c.pre, c.out.task_id), after \in RowOf(tasks, c.out.task_id) :
         /\ ("new_title" \notin DOMAIN c.params
              /\ ("title" \notin DOMAIN c.params \/ "task_id" \notin DOMAIN c.params))
               => after.title = before.title
         /\ ("new_description" \notin DOMAIN c.params /\ "description" \notin DOMAIN c.params)
               => after.description = before.description
         /\ after.id = before.id /\ after.user_id = before.user_id
         /\ after.completed = before.completed

\* C27: every stored task has a title of 1 to 200 characters and a
\* description of at most 1000 characters, and a tool call of a turn that asks
\* for an empty or over-long title fails without storing anything.
C27_TitleBounds ==
  /\ \A t \in tasks :
       /\ Len(t.title) >= 1 /\ Len(t.title) <= TitleMax
       /\ t.description # NoneV => Len(t.description) <= DescriptionMax
  /\ \A r \in DOMAIN reqs :
       LET c == reqs[r].last
           title == Get(c.params, "title")
       IN (c.fn = "add_task" /\ (title = <<>> \/ Len(title) > TitleMax)) =>
            ~c.out.ok /\ tasks = c.pre

\* C24: a tool given a user id that is not a well-formed positive integer
\* fails with the invalid-user error, which is not a not-found error; the
\* outcome does not depend on the store and the store is unchanged.
C24_UserIdChecked ==
  LET c == lastOp
  IN (c.op = "tool" /\ Get(c.params, "user_id") \in BadUserIds) =>
       /\ ~c.out.ok
       /\ c.out.kind = "error"
       /\ c.out.exc = InvalidUserText(Get(c.params, "user_id"))
       /\ ~Contains(c.out.exc, <<" not found for user ">>)
       /\ tasks = c.pre
       /\ \A o \in CallTool(c.fn, c.params, {}, 1) : o.exc = c.out.exc /\ o.kind = c.out.kind

\* update_task was given the user id "0" or "-1" while task 1 existed
C24_Witness ==
  LET c == lastOp
  IN /\ c.op = "tool" /\ c.fn = "update_task"
     /\ Get(c.params, "user_id") \in {ToStr(0), ToStr(-1)}
     /\ RowOf(c.pre, 1) # {}

\* the title aliases of a call
Aliases(fn) ==
  IF fn = "delete_task" THEN {"title", "task_name", "name", "task_title"}
  ELSE {"title_to_find", "task_name", "name", "task_title", "title"}

\* C25: a delete_task or update_task call with both a task_id and a title
\* alias identifies the task by (task_id, owner), whatever the alias matches;
\* a call with neither fails with an error and the store is unchanged.
C25_IdPreferred ==
  LET c == lastOp
      given == Aliases(c.fn) \cap DOMAIN c.params
      X == ParseInt(Get(c.params, "task_id")).val
      owned == {t \in c.pre : t.id = X /\ t.user_id = ToolCaller(c)}
  IN (/\ c.op = "tool" /\ c.fn \in {"delete_task", "update_task"}
      /\ Get(c.params, "user_id") \notin BadUserIds) =>
       /\ ("task_id" \in DOMAIN c.params /\ given # {}) =>
            /\ owned # {} => (c.out.ok /\ c.out.task_id = X
                              /\ \A t \in c.pre : t.id # X => t \in tasks)
            /\ owned = {} =>
                 /\ c.out.kind = "not_found"
                 /\ c.out.exc = NotFoundByIdText(c.params["task_id"], c.params["user_id"])
                 /\ tasks = c.pre
       /\ ("task_id" \notin DOMAIN c.params /\ given = {}) =>
            (~c.out.ok /\ c.out.kind = "error" /\ tasks = c.pre)

\* a delete with task_id 1 and a title succeeded while the title matched
\* another task of the caller, which stayed
C25_Witness ==
  LET c == lastOp
  IN /\ c.op = "tool" /\ c.fn = "delete_task" /\ c.out.ok
     /\ "task_id" \in DOMAIN c.params /\ "title" \in DOMAIN c.params
     /\ \E t \in tasks : /\ t.user_id = ToolCaller(c)
                          /\ ContainsIgnoringCase(t.title, c.params["title"])

\* the search text of a call addressed by title
SearchText(c) ==
  IF c.fn = "delete_task" THEN Get(c.params, "title") ELSE Get(c.params, "title_to_find")

\* C26: for delete_task and update_task addressed by title, '%' and '_' in
\* the search text are matched literally: the task selected is a caller task
\* whose title contains the text, and when no caller title contains it the
\* call fails with not-found and the store is unchanged.
C26_LiteralWildcards ==
  LET c == lastOp
      key == SearchText(c)
      hits == {t \in Mine(c.pre, ToolCaller(c)) : ContainsIgnoringCase(t.title, key)}
  IN (/\ c.op = "tool" /\ c.fn \in {"delete_task", "update_task"}
      /\ "task_id" \notin DOMAIN c.params
      /\ key \in {<<"%">>, <<"_">>}) =>
       /\ c.out.ok => \E t \in hits : t.id = c.out.task_id
       /\ hits = {} => (c.out.kind = "not_found" /\ tasks = c.pre)

====
